---- MODULE Spec2Model ----
(***************************************************************************)
(* Execution core of KripV1: the bracket order manager                     *)
(* (src/exchanges/order_manager.py), the broker-agnostic agent             *)
(* (src/agents/llm_agent_broker_agnostic.py) and the legacy agent with its *)
(* Hyperliquid client (src/agents/llm_agent.py, src/core/hyperliquid.py).  *)
(*                                                                         *)
(* Conventions.  A Python Optional value is a sequence of length 0 (None)  *)
(* or 1 (the value).  Prices are integers in thousandths of a quote unit.  *)
(* The venue adapter is the environment: every response of an adapter      *)
(* method is an input of the action that makes the call.  One action is    *)
(* one whole call of a method; the adapter calls it made are recorded in   *)
(* calls, its return value in ret and exc.                                 *)
(***************************************************************************)
EXTENDS Integers, Sequences, FiniteSets, TLC

VARIABLES
    active_brackets,   \* OrderManager.active_brackets: position key -> leg ids
    now,               \* int(time.time()), the wall clock in seconds
    op,                \* the last operation called and its arguments
    calls,             \* adapter calls made by the last operation, in order
    ret,               \* what the last operation returned (Optional)
    exc,               \* TRUE iff the last operation ended by an exception
    invocation_count,  \* LLMAgent.invocation_count
    snapshot,          \* the dict a caller got from get_active_brackets (Optional)
    order_managers,    \* with several agents: each OrderManager's active_brackets
    threads            \* with several agents: each agent thread's call in flight

vars == <<active_brackets, now, op, calls, ret, exc, invocation_count, snapshot,
          order_managers, threads>>

-----------------------------------------------------------------------------
(* Bounds and input sets *)

MaxTime == 1        \* the clock runs from 0 to MaxTime
MaxBrackets == 2    \* no more than MaxBrackets brackets are tracked at once
MaxCycles == 1      \* run_cycle is called at most MaxCycles times
MaxRunCycles == 2   \* LLMAgent.run is followed for MaxRunCycles cycles

Symbols == {"BTC"}

\* the agents of the configuration file, one thread each
Agents == {"agent_a", "agent_b"}
Times == 0 .. MaxTime
Sides == {"BUY", "SELL"}

None == <<>>
Some(v) == <<v>>
Val(o) == o[1]

\* Python truthiness of an Optional acknowledgement dict (never empty) or of
\* an Optional order id (never empty, never 0)
Truthy(o) == o # None

\* Python truthiness of an Optional number: None and 0 are false
TruthyNum(o) == o # None /\ Val(o) # 0

\* a or b
PyOr(a, b) == IF Truthy(a) THEN a ELSE b

\* str.upper() on the action / side tokens the model uses
Upper(s) ==
    CASE s = "buy" -> "BUY"
      [] s = "sell" -> "SELL"
      [] s = "hold" -> "HOLD"
      [] OTHER -> s

-----------------------------------------------------------------------------
(* The adapter's responses (inputs) *)

\* A response either raises or returns an Optional acknowledgement dict.
Raise == [raised |-> TRUE, val |-> None]
Return(v) == [raised |-> FALSE, val |-> v]

\* The shapes of acknowledgement a place_order call can return for the leg
\* whose venue id is i: the id under 'orderId', under 'id', or under neither
\* key (a non-empty dict such as {'status': 'ok', ...}).
AckKinds == {"orderId", "id", "noid"}
AckDict(kind, i) ==
    CASE kind = "orderId" -> [orderId |-> Some(i), id |-> None]
      [] kind = "id"      -> [orderId |-> None, id |-> Some(i)]
      [] OTHER            -> [orderId |-> None, id |-> None]

\* the venue ids of the three legs of one bracket call
LegIds == [main |-> "o1", tp |-> "o2", sl |-> "o3"]
Legs == <<"main", "tp", "sl">>

\* The entry order is answered with every shape; the two exit legs with the
\* 'orderId' shape.
LegAckKinds(leg) == IF leg = "main" THEN AckKinds ELSE {"orderId"}

PlaceResponses(leg) ==
    {Raise, Return(None)}
        \cup {Return(Some(AckDict(k, LegIds[leg]))) : k \in LegAckKinds(leg)}

CancelResponses == {Raise, Return(None), Return(Some([status |-> "ok"]))}

\* one recorded adapter call
PlaceCall(coin, is_buy, sz, limit_px, reduce_only, resp) ==
    [m |-> "place_order", coin |-> coin, is_buy |-> is_buy, sz |-> sz,
     limit_px |-> limit_px, reduce_only |-> reduce_only, order_id |-> None,
     resp |-> resp]

CancelCall(order_id, symbol, resp) ==
    [m |-> "cancel_order", coin |-> symbol, is_buy |-> FALSE, sz |-> None,
     limit_px |-> None, reduce_only |-> FALSE, order_id |-> order_id,
     resp |-> resp]

-----------------------------------------------------------------------------
(* OrderManager *)

\* f"{symbol}_{int(time.time())}"
get_position_key(symbol, t) == <<symbol, t>>

\* response.get('orderId') or response.get('id')
AckId(resp) == PyOr(Val(resp.val).orderId, Val(resp.val).id)

\* the outcome of one call: return value, whether an exception escaped, the
\* registry afterwards and the adapter calls made
Result(rv, e, b, c) == [ret |-> rv, exc |-> e, brackets |-> b, calls |-> c]

\* A variant of abort_main_order that has already registered the (empty)
\* bracket when the entry order turns out to have failed.
abort_main_order_registered(brackets, position_key, mainCall) ==
    Result(None, FALSE,
           [k \in DOMAIN brackets \cup {position_key} |->
               IF k = position_key THEN [main |-> None, tp |-> None, sl |-> None]
               ELSE brackets[k]],
           <<mainCall>>)

\* if not main_order_response: log and return None
abort_main_order(brackets, position_key, mainCall) ==
    Result(None, FALSE, brackets, <<mainCall>>)

\* self.active_brackets[position_key] = bracket_ids
store_bracket(brackets, position_key, bracket_ids) ==
    [k \in DOMAIN brackets \cup {position_key} |->
        IF k = position_key THEN bracket_ids ELSE brackets[k]]

\* A variant of leg_calls that places a leg a second time when the adapter
\* returned a failure value for it.
leg_calls_retried(cs, wanted, legCall) ==
    IF ~wanted THEN cs
    ELSE IF ~legCall.resp.raised /\ ~Truthy(legCall.resp.val)
    THEN cs \o <<legCall, legCall>>
    ELSE Append(cs, legCall)

\* if take_profit_px: / if stop_loss_px: one place_order call for the leg,
\* made after the calls cs
leg_calls(cs, wanted, legCall) == IF wanted THEN Append(cs, legCall) ELSE cs

\* place_bracket_order: r is the adapter's response to the place_order call
\* of each leg, consulted only if that call is made.  The result is the
\* return value, whether an exception escaped, the registry afterwards and
\* the adapter calls made.
place_bracket_order(brackets, t, symbol, side, quantity, limit_px, take_profit_px, stop_loss_px, r) ==
    LET position_key == get_position_key(symbol, t)
        mainCall == PlaceCall(symbol, Upper(side) = "BUY", quantity,
                              Some(limit_px), FALSE, r.main)
        tpCall == PlaceCall(symbol, Upper(side) # "BUY", quantity,
                            take_profit_px, TRUE, r.tp)
        slCall == PlaceCall(symbol, Upper(side) # "BUY", quantity,
                            stop_loss_px, TRUE, r.sl)
    IN  IF r.main.raised
        THEN Result(None, TRUE, brackets, <<mainCall>>)
        ELSE IF ~Truthy(r.main.val)
        THEN abort_main_order(brackets, position_key, mainCall)
        ELSE
          LET mainId == AckId(r.main)
              doTp == TruthyNum(take_profit_px)
              doSl == TruthyNum(stop_loss_px)
              c1 == <<mainCall>>
              c2 == leg_calls(c1, doTp, tpCall)
              tpId == IF doTp /\ Truthy(r.tp.val) THEN AckId(r.tp) ELSE None
              c3 == leg_calls(c2, doSl, slCall)
              slId == IF doSl /\ Truthy(r.sl.val) THEN AckId(r.sl) ELSE None
              bracket_ids == [main |-> mainId, tp |-> tpId, sl |-> slId]
          IN  IF doTp /\ r.tp.raised
              THEN Result(None, TRUE, brackets, c2)
              ELSE IF doSl /\ r.sl.raised
              THEN Result(None, TRUE, brackets, c3)
              ELSE Result(Some(bracket_ids), FALSE,
                          store_bracket(brackets, position_key, bracket_ids), c3)

\* A variant of cancel_tracked that stops at the first leg whose cancellation
\* fails or raises, and then keeps the entry.
cancel_tracked_stops(brackets, position_key, r) ==
    LET bracket_ids == brackets[position_key]
        symbol == position_key[1]
        ok(leg) == ~Truthy(bracket_ids[leg])
                      \/ (~r[leg].raised /\ Truthy(r[leg].val))
        call(leg) == IF Truthy(bracket_ids[leg])
                     THEN <<CancelCall(bracket_ids[leg], symbol, r[leg])>>
                     ELSE <<>>
    IN  IF ~ok("main") THEN Result(None, FALSE, brackets, call("main"))
        ELSE IF ~ok("tp") THEN Result(None, FALSE, brackets, call("main") \o call("tp"))
        ELSE IF ~ok("sl")
        THEN Result(None, FALSE, brackets, call("main") \o call("tp") \o call("sl"))
        ELSE Result(None, FALSE,
                    [k \in DOMAIN brackets \ {position_key} |-> brackets[k]],
                    call("main") \o call("tp") \o call("sl"))

\* The part of cancel_bracket_order that runs for a tracked key: one
\* cancel_order call per leg whose id is truthy, in the order main, tp, sl;
\* a failure value is logged, an exception is caught and logged; then the
\* entry is deleted.  r is the adapter's response to the call of each leg.
cancel_tracked(brackets, position_key, r) ==
    LET bracket_ids == brackets[position_key]
        symbol == position_key[1]
        legCalls(leg) ==
            IF Truthy(bracket_ids[leg])
            THEN <<CancelCall(bracket_ids[leg], symbol, r[leg])>>
            ELSE <<>>
    IN  Result(None, FALSE,
               [k \in DOMAIN brackets \ {position_key} |-> brackets[k]],
               legCalls("main") \o legCalls("tp") \o legCalls("sl"))

\* A variant of cancel_bracket_order without the membership test: the lookup
\* of an unknown key raises KeyError.
cancel_bracket_order_unchecked(brackets, position_key, r) ==
    IF position_key \notin DOMAIN brackets
    THEN Result(None, TRUE, brackets, <<>>)
    ELSE cancel_tracked(brackets, position_key, r)

\* cancel_bracket_order: an unknown key is logged and nothing else happens.
cancel_bracket_order(brackets, position_key, r) ==
    IF position_key \notin DOMAIN brackets
    THEN Result(None, FALSE, brackets, <<>>)
    ELSE cancel_tracked(brackets, position_key, r)

-----------------------------------------------------------------------------
(* LLMAgent (broker-agnostic): Decision Validator *)

\* One entry of the CHAIN_OF_THOUGHT JSON, as CoTEntry validates it:
\* quantity, signal, justification, confidence, leverage and coin are
\* required; signal is one of the three literals; 0.0 <= confidence <= 1.0
\* (kept in hundredths); 1 <= leverage <= 100.
ValidCoTEntry(e) ==
    /\ e.has_quantity
    /\ e.has_coin
    /\ e.signal \in {"HOLD", "BUY", "SELL"}
    /\ e.justification # None
    /\ e.confidence >= 0 /\ e.confidence <= 100
    /\ e.leverage >= 1 /\ e.leverage <= 100

\* ChainOfThought: a dict of CoTEntry by symbol, every entry valid
ValidChainOfThought(cot) == \A sym \in DOMAIN cot : ValidCoTEntry(cot[sym])

\* re.search(r'CHAIN_OF_THOUGHT\s*\n({.*?})\s*\n\s*...') found the block
has_cot_block(text) == text.cot # None

\* re.search(r'TRADING_DECISIONS\s*\n\s*(\w+)...QUANTITY:\s*([0-9.-]+)') matched
has_decision_block(text) == text.dec # None

\* A variant of merged_action that prefers the signal of the structured entry.
merged_action_structured(dec, cot) ==
    IF dec.symbol \in DOMAIN cot THEN cot[dec.symbol].signal ELSE dec.action

\* "action": action, the second token of the decision block
merged_action(dec, cot) == dec.action

\* A variant of details_of that, for a symbol the chain of thought does not
\* have, takes the details of some entry it does have.
details_of_any(dec, cot) ==
    LET sym == IF dec.symbol \in DOMAIN cot \/ DOMAIN cot = {}
               THEN dec.symbol
               ELSE CHOOSE x \in DOMAIN cot : TRUE
    IN  IF sym \in DOMAIN cot
        THEN [leverage |-> Some(cot[sym].leverage), stop_loss |-> cot[sym].stop_loss,
              profit_target |-> cot[sym].profit_target, risk_usd |-> cot[sym].risk_usd]
        ELSE [leverage |-> None, stop_loss |-> None, profit_target |-> None,
              risk_usd |-> None]

\* if symbol in cot_data.root: result.update({...}); else the keys stay unset
details_of(dec, cot) ==
    IF dec.symbol \in DOMAIN cot
    THEN [leverage |-> Some(cot[dec.symbol].leverage),
          stop_loss |-> cot[dec.symbol].stop_loss,
          profit_target |-> cot[dec.symbol].profit_target,
          risk_usd |-> cot[dec.symbol].risk_usd]
    ELSE [leverage |-> None, stop_loss |-> None, profit_target |-> None,
          risk_usd |-> None]

\* The merge of the decision block dec with the validated chain of thought
\* cot: symbol, action, confidence (kept as the percentage), justification and
\* quantity come
\* from dec; leverage, stop_loss, profit_target and risk_usd are set from
\* cot[symbol] only if the symbol is in cot (in_cot), so they read as None
\* through dict.get otherwise.  float() of a token that is no float literal
\* (dec.quantity = None) raises.
decision_from(dec, cot) ==
    LET in_cot == dec.symbol \in DOMAIN cot
        details == details_of(dec, cot)
    IN  IF dec.quantity = None
        THEN [exc |-> TRUE, val |-> None]
        ELSE [exc |-> FALSE,
              val |-> Some([symbol |-> dec.symbol,
                            action |-> merged_action(dec, cot),
                            confidence |-> dec.pct,
                            justification |-> dec.justification,
                            quantity |-> Val(dec.quantity),
                            in_cot |-> in_cot,
                            leverage |-> details.leverage,
                            stop_loss |-> details.stop_loss,
                            profit_target |-> details.profit_target,
                            risk_usd |-> details.risk_usd])]

\* A variant of missing_cot_result that goes on without a chain of thought
\* and builds the decision from the decision block alone.
missing_cot_result_lenient(text) ==
    IF has_decision_block(text)
    THEN decision_from(Val(text.dec), << >>)
    ELSE [exc |-> FALSE, val |-> None]

\* if not cot_match: print and return None
missing_cot_result(text) == [exc |-> FALSE, val |-> None]

\* parse_llm_output.  A model output is its two blocks: cot is None or the
\* JSON object of the CHAIN_OF_THOUGHT block, dec is None or the positional
\* fields of the TRADING_DECISIONS block.  The result is the Optional
\* decision, or an escaping exception.
parse_llm_output(text) ==
    IF ~has_cot_block(text) THEN missing_cot_result(text)
    ELSE IF ~ValidChainOfThought(Val(text.cot)) THEN [exc |-> FALSE, val |-> None]
    ELSE IF ~has_decision_block(text) THEN [exc |-> FALSE, val |-> None]
    ELSE decision_from(Val(text.dec), Val(text.cot))

-----------------------------------------------------------------------------
(* LLMAgent (broker-agnostic): Risk Sizer *)

Abs(x) == IF x < 0 THEN -x ELSE x
Max2(a, b) == IF a >= b THEN a ELSE b

\* max(high - low, abs(high - prev_close), abs(low - prev_close))
TrueRange(klines, i) ==
    Max2(klines[i].h - klines[i].l,
         Max2(Abs(klines[i].h - klines[i - 1].c), Abs(klines[i].l - klines[i - 1].c)))

\* for i in range(1, len(klines_4h)): true_ranges.append(tr)
true_ranges(klines) == [j \in 1 .. (Len(klines) - 1) |-> TrueRange(klines, j + 1)]

RECURSIVE SumSeq(_)
SumSeq(q) == IF q = <<>> THEN 0 ELSE q[1] + SumSeq(Tail(q))

\* sum(true_ranges[-14:]) / 14, as the fraction n/d
ATR14(trs) == [n |-> SumSeq(SubSeq(trs, Len(trs) - 13, Len(trs))), d |-> 14]

KlinesCall(symbol, resp) ==
    [m |-> "get_klines", coin |-> symbol, is_buy |-> FALSE, sz |-> None,
     limit_px |-> None, reduce_only |-> FALSE, order_id |-> None, resp |-> resp]

MidsCall(resp) ==
    [m |-> "get_all_mids", coin |-> "", is_buy |-> FALSE, sz |-> None,
     limit_px |-> None, reduce_only |-> FALSE, order_id |-> None, resp |-> resp]

\* A variant of not_enough_klines that also turns away exactly 15 candles.
not_enough_klines_strict(klines) == klines = <<>> \/ Len(klines) <= 15

\* if not klines_4h or len(klines_4h) < 15
not_enough_klines(klines) == klines = <<>> \/ Len(klines) < 15

\* A variant of is_zero_distance without the guard.
is_zero_distance_unguarded(sl_distance) == FALSE

\* if sl_distance == 0
is_zero_distance(sl_distance) == sl_distance = 0

\* A variant of quantity_formula that sizes by the ATR instead of the stop
\* distance.
quantity_formula_atr(risk_usd, sl_distance, atr) ==
    [n |-> risk_usd * 1000 * atr.d, d |-> atr.n]

\* calculated_quantity = risk_usd / sl_distance.  risk_usd is in quote units
\* and prices in thousandths, so the quotient is the fraction
\* (risk_usd * 1000) / sl_distance, kept unreduced.
quantity_formula(risk_usd, sl_distance, atr) ==
    [n |-> risk_usd * 1000, d |-> sl_distance]

\* calculate_quantity_based_on_risk: kresp is the adapter's response to
\* get_klines(symbol, "4h", 20).  The result tells whether an exception
\* escaped, the Optional quantity returned and the ATR that was logged.
calculate_quantity_based_on_risk(symbol, entry_price, stop_loss_price, risk_usd, kresp) ==
    IF kresp.raised THEN [exc |-> TRUE, qty |-> None, atr |-> None]
    ELSE IF not_enough_klines(kresp.val) THEN [exc |-> FALSE, qty |-> None, atr |-> None]
    ELSE
      LET trs == true_ranges(kresp.val)
          sl_distance == Abs(entry_price - stop_loss_price)
      IN  IF Len(trs) < 14 THEN [exc |-> FALSE, qty |-> None, atr |-> None]
          ELSE IF is_zero_distance(sl_distance)
          THEN [exc |-> FALSE, qty |-> None, atr |-> Some(ATR14(trs))]
          ELSE [exc |-> FALSE,
                qty |-> Some(quantity_formula(risk_usd, sl_distance, ATR14(trs))),
                atr |-> Some(ATR14(trs))]

-----------------------------------------------------------------------------
(* LLMAgent (broker-agnostic): Execution Orchestrator *)

\* A variant of is_hold that matches nothing.
is_hold_never(action) == FALSE

\* if action == "HOLD"
is_hold(action) == action = "HOLD"

\* A variant of no_reference_price that has the sizer fetch candles before
\* giving up.
no_reference_price_sized(brackets, symbol, e) ==
    Result(None, FALSE, brackets, <<MidsCall(e.mids), KlinesCall(symbol, e.klines)>>)

\* if not all_mids or symbol not in all_mids: print and return
no_reference_price(brackets, symbol, e) ==
    Result(None, FALSE, brackets, <<MidsCall(e.mids)>>)

\* A variant of is_invalid_quantity that lets a quantity of zero through.
is_invalid_quantity_negative(calculated_qty) == calculated_qty.n < 0

\* if calculated_qty <= 0 (the denominator of the fraction is positive)
is_invalid_quantity(calculated_qty) == calculated_qty.n <= 0

\* execute_decision: e.mids, e.klines and e.place are the adapter's
\* responses to get_all_mids, get_klines and the place_order calls, each
\* consulted only if the call is made.  Keys that parse_llm_output did not
\* set (symbol absent from the chain of thought) read as their defaults.
execute_decision(brackets, t, decision, e) ==
    LET symbol == decision.symbol
        action == decision.action
        sl == decision.stop_loss
        tp == decision.profit_target
        risk_usd == IF decision.in_cot THEN decision.risk_usd ELSE Some(10)
        midsCall == MidsCall(e.mids)
        klCall == KlinesCall(symbol, e.klines)
    IN  IF is_hold(action) THEN Result(None, FALSE, brackets, <<>>)
        ELSE IF e.mids.raised THEN Result(None, TRUE, brackets, <<midsCall>>)
        ELSE IF symbol \notin DOMAIN e.mids.val
        THEN no_reference_price(brackets, symbol, e)
        ELSE
          LET current_price == e.mids.val[symbol]
              is_buy == Upper(action) = "BUY"
              useSizer == TruthyNum(sl) /\ TruthyNum(risk_usd)
              sized == calculate_quantity_based_on_risk(
                           symbol, current_price, Val(sl), Val(risk_usd), e.klines)
              pre == IF useSizer THEN <<midsCall, klCall>> ELSE <<midsCall>>
              calculated_qty ==
                  IF useSizer THEN Val(sized.qty) ELSE [n |-> decision.quantity, d |-> 1]
              limit_px == IF is_buy THEN (current_price * 1001) \div 1000
                                    ELSE (current_price * 999) \div 1000
          IN  IF useSizer /\ sized.exc THEN Result(None, TRUE, brackets, pre)
              ELSE IF useSizer /\ sized.qty = None
              THEN Result(None, FALSE, brackets, pre)
              ELSE IF is_invalid_quantity(calculated_qty)
              THEN Result(None, FALSE, brackets, pre)
              ELSE
                LET res == place_bracket_order(brackets, t, symbol, action,
                               calculated_qty, limit_px, tp, sl, e.place)
                IN  Result(None, res.exc, res.brackets, pre \o res.calls)

\* A variant of swallow that lets the exception of execute_decision escape.
swallow_nothing(res) == Result(None, res.exc, res.brackets, res.calls)

\* except Exception as e: print(...): what execute_decision did stays done,
\* its exception goes no further
swallow(res) == Result(None, FALSE, res.brackets, res.calls)

\* run_cycle: c.prep tells whether gathering the data and building the
\* prompt raised (the data calls are reads whose own failures are caught
\* where they occur), c.llm is the response of llm_client.call, c.env the
\* adapter's responses during execute_decision.  Every exception is caught
\* and logged, and invocation_count advances in the finally clause.  The
\* result also tells what was parsed and whether execute_decision ran.
run_cycle(brackets, t, c) ==
    LET Out(res, parsed, executed) ==
            [res |-> res, parsed |-> parsed, executed |-> executed]
        nothing == Result(None, FALSE, brackets, <<>>)
        noparse == [exc |-> FALSE, val |-> None]
    IN  IF c.prep = "raise" THEN Out(nothing, noparse, FALSE)
        ELSE IF c.llm.raised \/ c.llm.val = None THEN Out(nothing, noparse, FALSE)
        ELSE
          LET parsed == parse_llm_output(Val(c.llm.val))
          IN  IF parsed.exc \/ parsed.val = None THEN Out(nothing, parsed, FALSE)
              ELSE
                LET res == execute_decision(brackets, t, Val(parsed.val), c.env)
                IN  Out(swallow(res), parsed, TRUE)

-----------------------------------------------------------------------------
(* Legacy agent (llm_agent.py) on the Hyperliquid client (core/hyperliquid.py) *)

\* LLMAgent.parse_llm_output of the legacy agent: the chain of thought is
\* parsed by json.loads and not validated; leverage defaults to 10.
legacy_parse_llm_output(text) ==
    IF text.cot = None THEN [exc |-> FALSE, val |-> None]
    ELSE IF text.dec = None THEN [exc |-> FALSE, val |-> None]
    ELSE
      LET dec == Val(text.dec)
          cot == Val(text.cot)
          in_cot == dec.symbol \in DOMAIN cot
          entry == cot[dec.symbol]
      IN  IF dec.quantity = None
          THEN [exc |-> TRUE, val |-> None]
          ELSE [exc |-> FALSE,
                val |-> Some([symbol |-> dec.symbol,
                              action |-> dec.action,
                              quantity |-> Val(dec.quantity),
                              leverage |-> IF in_cot THEN entry.leverage ELSE 10,
                              stop_loss |-> IF in_cot THEN entry.stop_loss ELSE None,
                              profit_target |-> IF in_cot THEN entry.profit_target ELSE None])]

allowed_coins == {"BTC", "ETH", "SOL", "XRP", "DOGE", "BNB"}

\* HyperliquidClient.place_order: a coin outside allowed_coins returns None
\* without a request; otherwise the order request is posted and resp is what
\* _make_request returns (None on a failed request).
hl_place_order(coin, is_buy, sz, limit_px, reduce_only, resp) ==
    IF coin \notin allowed_coins
    THEN [calls |-> <<>>, val |-> None]
    ELSE [calls |-> <<PlaceCall(coin, is_buy, sz, Some(limit_px), reduce_only, resp)>>,
          val |-> resp.val]

\* HyperliquidClient.execute_llm_decision: e.mids is what get_all_mids returns
\* (None on any failure), e.place the responses to the order requests.
execute_llm_decision(symbol, action, quantity, leverage, stop_loss, profit_target, e) ==
    LET mids == e.mids.val
    IN  IF mids = None \/ Val(mids) = << >> \/ symbol \notin DOMAIN Val(mids)
        THEN <<MidsCall(e.mids)>>
        ELSE
          LET current_price == Val(mids)[symbol]
              is_buy == Upper(action) = "BUY"
              limit_px == IF is_buy THEN (current_price * 1001) \div 1000
                                    ELSE (current_price * 999) \div 1000
              sz == [n |-> quantity, d |-> 1]
              main == hl_place_order(symbol, is_buy, sz, limit_px, FALSE, e.place.main)
              tpCalls == IF TruthyNum(profit_target)
                         THEN hl_place_order(symbol, ~is_buy, sz, Val(profit_target),
                                             TRUE, e.place.tp).calls
                         ELSE <<>>
              slCalls == IF TruthyNum(stop_loss)
                         THEN hl_place_order(symbol, ~is_buy, sz, Val(stop_loss),
                                             TRUE, e.place.sl).calls
                         ELSE <<>>
          IN  IF main.val = None \/ Val(main.val).status # "ok"
              THEN <<MidsCall(e.mids)>> \o main.calls
              ELSE <<MidsCall(e.mids)>> \o main.calls \o tpCalls \o slCalls

\* LLMAgent.execute_decision of the legacy agent: without a client
\* (hyperliquid = FALSE) it only prints; otherwise it hands every decision,
\* whatever its action, to execute_llm_decision.
legacy_execute_decision(hyperliquid, decision, e) ==
    IF ~hyperliquid THEN <<>>
    ELSE execute_llm_decision(decision.symbol, decision.action, decision.quantity,
                              decision.leverage, decision.stop_loss,
                              decision.profit_target, e)

-----------------------------------------------------------------------------
(* Inputs *)

Qtys == {[n |-> 1, d |-> 1]}
LimitPxs == {100100}
TakeProfitPxs == {None, Some(110000)}
StopLossPxs == {None, Some(90000)}

\* The responses to the place_order calls of one place_bracket_order call; the
\* response of a call that is not made is fixed, as it is never consulted.
Unused == Return(None)
UnusedPlace == [main |-> Unused, tp |-> Unused, sl |-> Unused]
PlaceResponseSets(tp, sl) ==
    {r \in [main : PlaceResponses("main"), tp : PlaceResponses("tp"),
            sl : PlaceResponses("sl")] :
        LET mainOk == ~r.main.raised /\ Truthy(r.main.val)
            tpMade == mainOk /\ TruthyNum(tp)
            slMade == mainOk /\ TruthyNum(sl) /\ ~(tpMade /\ r.tp.raised)
        IN  /\ ~tpMade => r.tp = Unused
            /\ ~slMade => r.sl = Unused}

\* the arguments and adapter responses of the direct place_bracket_order calls
PlaceInputs ==
    UNION {{[symbol |-> a[1], side |-> a[2], quantity |-> a[3], limit_px |-> a[4],
             tp |-> a[5], sl |-> a[6], r |-> r] : r \in PlaceResponseSets(a[5], a[6])} :
           a \in Symbols \X Sides \X Qtys \X LimitPxs \X TakeProfitPxs \X StopLossPxs}

\* The responses to the cancel_order calls of one cancel_bracket_order call.
CancelResponseSets(brackets, position_key) ==
    {r \in [main : CancelResponses, tp : CancelResponses, sl : CancelResponses] :
        \A leg \in {"main", "tp", "sl"} :
            (position_key \notin DOMAIN brackets
                \/ ~Truthy(brackets[position_key][leg])) => r[leg] = Unused}

\* Model outputs.  The chain-of-thought entries: a valid one with stop,
\* target and risk; a valid one without them; one with leverage 0; and one
\* without the required quantity and coin fields.
EntryFull ==
    [has_quantity |-> TRUE, has_coin |-> TRUE, signal |-> "BUY",
     justification |-> Some("x"), confidence |-> 88, leverage |-> 25,
     stop_loss |-> Some(90000), profit_target |-> Some(110000), risk_usd |-> Some(10)]
EntryBare ==
    [EntryFull EXCEPT !.stop_loss = None, !.profit_target = None, !.risk_usd = None]
EntryBadLeverage == [EntryFull EXCEPT !.leverage = 0]
EntryNoQuantity == [EntryFull EXCEPT !.has_quantity = FALSE, !.has_coin = FALSE]
\* further entries: an empty and a missing justification, a signal outside
\* the three literals, a confidence of 1.5
EntryEmptyJustification == [EntryFull EXCEPT !.justification = Some("")]
EntryNoJustification == [EntryFull EXCEPT !.justification = None]
EntryBadSignal == [EntryFull EXCEPT !.signal = "WAIT"]
EntryBadConfidence == [EntryFull EXCEPT !.confidence = 150]

CoTEntries ==
    {EntryFull, EntryBare, EntryBadLeverage, EntryNoQuantity,
     EntryEmptyJustification, EntryNoJustification, EntryBadSignal,
     EntryBadConfidence}

\* the chain of thought is absent, has one entry for BTC, or has an entry
\* with leverage 0 for BTC next to a valid entry for ETH
CoTBlocks ==
    {None} \cup {Some([s \in {"BTC"} |-> e]) : e \in CoTEntries}
           \cup {Some([s \in {"BTC", "ETH"} |->
                         IF s = "BTC" THEN EntryBadLeverage ELSE EntryFull])}

DecisionSymbols == {"BTC", "ETH"}
ActionTokens == {"BUY", "SELL", "HOLD"}
QuantityTokens == {None, Some(0), Some(2)}

DecisionBlocks ==
    {None} \cup {Some([symbol |-> x[1], action |-> x[2], pct |-> 88,
                        justification |-> "y", quantity |-> x[3]]) :
                    x \in DecisionSymbols \X ActionTokens \X QuantityTokens}

LLMOutputs == [cot : CoTBlocks, dec : DecisionBlocks]

\* the decisions execute_decision is called with: those parse_llm_output yields
Decisions ==
    {Val(parse_llm_output(t).val) :
        t \in {u \in LLMOutputs : parse_llm_output(u).val # None}}

\* Market data: get_all_mids raises, returns {} or the price of BTC;
\* get_klines raises or returns 0, 14 or 15 candles.
MidsResponses == {Raise, Return(<< >>), Return([s \in {"BTC"} |-> 100000])}
Candle == [h |-> 101000, l |-> 99000, c |-> 100000]
KlineLens == {0, 14, 15}
KlineResponses == {Raise} \cup {Return([i \in 1 .. n |-> Candle]) : n \in KlineLens}

UnusedEnv == [mids |-> Return(<< >>), klines |-> Return(<< >>), place |-> UnusedPlace]

\* the adapter responses one execute_decision call on d can consume
EnvsFor(d) ==
    {e \in [mids : MidsResponses, klines : KlineResponses,
            place : PlaceResponseSets(d.profit_target, d.stop_loss) \cup {UnusedPlace}] :
        LET cs == execute_decision(<< >>, 0, d, e).calls
        IN  /\ (\A i \in DOMAIN cs : cs[i].m # "get_all_mids") => e.mids = UnusedEnv.mids
            /\ (\A i \in DOMAIN cs : cs[i].m # "get_klines") => e.klines = UnusedEnv.klines
            /\ (\A i \in DOMAIN cs : cs[i].m # "place_order") => e.place = UnusedPlace}

ExecInputs == UNION {{[d |-> d, e |-> e] : e \in EnvsFor(d)} : d \in Decisions}

CycleInputs ==
    {[prep |-> "raise", llm |-> Unused, env |-> UnusedEnv],
     [prep |-> "ok", llm |-> Raise, env |-> UnusedEnv],
     [prep |-> "ok", llm |-> Return(None), env |-> UnusedEnv]}
    \cup UNION {{[prep |-> "ok", llm |-> Return(Some(t)), env |-> e] :
                   e \in IF parse_llm_output(t).val = None
                         THEN {UnusedEnv}
                         ELSE EnvsFor(Val(parse_llm_output(t).val))} :
                t \in LLMOutputs}

\* A wider range of model outputs for a single cycle.  Structured entries: a
\* HOLD signal, a risk of zero, a negative risk, a stop without a risk and a
\* risk without a stop, next to the full and the bare entry.
EntryHold == [EntryFull EXCEPT !.signal = "HOLD"]
EntryZeroRisk == [EntryFull EXCEPT !.risk_usd = Some(0)]
EntryNegativeRisk == [EntryFull EXCEPT !.risk_usd = Some(-10)]
EntryNoRisk == [EntryFull EXCEPT !.risk_usd = None]
EntryNoStop == [EntryFull EXCEPT !.stop_loss = None]

VariedCoTBlocks ==
    {Some([s \in {"BTC"} |-> e]) :
        e \in {EntryFull, EntryBare, EntryHold, EntryZeroRisk, EntryNegativeRisk,
               EntryNoRisk, EntryNoStop}}

\* the tokens \w+ accepts as the action, the percentages \d+ accepts and the
\* quantities [0-9.-]+ accepts
VariedActionTokens == {"BUY", "SELL", "HOLD", "hold", "buy", "WAIT"}
VariedPcts == {70, 150}
VariedQuantityTokens == {Some(-2), Some(0), Some(2)}

VariedDecisionBlocks ==
    {Some([symbol |-> x[1], action |-> x[2], pct |-> x[3],
           justification |-> "y", quantity |-> x[4]]) :
        x \in DecisionSymbols \X VariedActionTokens \X VariedPcts \X VariedQuantityTokens}

VariedLLMOutputs == [cot : VariedCoTBlocks, dec : VariedDecisionBlocks]

\* get_all_mids returns {}, the price of BTC, or the prices of BTC and ETH;
\* get_klines returns 14 or 15 candles; the venue acknowledges every order
\* or refuses the entry order
VariedMidsResponses ==
    {Return(<< >>), Return([s \in {"BTC"} |-> 100000]),
     Return([s \in {"BTC", "ETH"} |-> 100000])}
VariedKlineResponses == {Return([i \in 1 .. n |-> Candle]) : n \in {14, 15}}
VariedPlaceResponses(tp, sl) ==
    {r \in PlaceResponseSets(tp, sl) :
        \A leg \in DOMAIN r :
            r[leg] \in {Unused, Return(Some(AckDict("orderId", LegIds[leg])))}}
        \cup {UnusedPlace}

VariedEnvsFor(d) ==
    {e \in [mids : VariedMidsResponses \cup {UnusedEnv.mids},
            klines : VariedKlineResponses \cup {UnusedEnv.klines},
            place : VariedPlaceResponses(d.profit_target, d.stop_loss)] :
        LET cs == execute_decision(<< >>, 0, d, e).calls
        IN  /\ (\A i \in DOMAIN cs : cs[i].m # "get_all_mids") => e.mids = UnusedEnv.mids
            /\ (\A i \in DOMAIN cs : cs[i].m # "get_klines") => e.klines = UnusedEnv.klines
            /\ (\A i \in DOMAIN cs : cs[i].m # "place_order") => e.place = UnusedPlace}

VariedCycleInputs ==
    UNION {{[prep |-> "ok", llm |-> Return(Some(t)), env |-> e] :
               e \in IF parse_llm_output(t).val = None
                     THEN {UnusedEnv}
                     ELSE VariedEnvsFor(Val(parse_llm_output(t).val))} :
           t \in VariedLLMOutputs}

\* The cycles of the run loop: data gathering raises; the model call raises
\* or returns nothing; the output lacks its chain of thought, fails the
\* schema, or has a quantity that is no number; get_all_mids raises or has
\* no price; the entry order raises or is refused; an exit order raises or
\* is refused; and the cycle in which every order is acknowledged.
RunDecisionBlocks ==
    {Some([symbol |-> "BTC", action |-> "BUY", pct |-> 88, justification |-> "y",
           quantity |-> q]) : q \in {None, Some(2)}}
RunLLMOutputs ==
    {t \in LLMOutputs :
        /\ t.dec \in RunDecisionBlocks
        /\ t.cot \in {None, Some([s \in {"BTC"} |-> EntryBadLeverage]),
                       Some([s \in {"BTC"} |-> EntryFull])}
        /\ t.dec = Some([symbol |-> "BTC", action |-> "BUY", pct |-> 88,
                         justification |-> "y", quantity |-> None])
              => t.cot = Some([s \in {"BTC"} |-> EntryFull])}
RunInputs ==
    {c \in CycleInputs :
        \/ c.prep = "raise"
        \/ c.llm \in {Raise, Return(None)}
        \/ /\ c.llm.val # None
           /\ Val(c.llm.val) \in RunLLMOutputs
           /\ c.env.mids \in {Raise, UnusedEnv.mids, Return([s \in {"BTC"} |-> 100000])}
           /\ c.env.klines \in {UnusedEnv.klines, Return([i \in 1 .. 15 |-> Candle])}
           /\ c.env.place.main
                 \in {Raise, Return(None), Return(Some(AckDict("orderId", LegIds.main)))}}

\* Legacy path: model outputs naming BTC or a coin the client does not allow
LegacySymbols == {"BTC", "PEPE"}
LegacyDecisionBlocks ==
    {Some([symbol |-> x[1], action |-> x[2], pct |-> 88, quantity |-> x[3]]) :
        x \in LegacySymbols \X ActionTokens \X QuantityTokens}
LegacyDecisions ==
    {Val(legacy_parse_llm_output(t).val) :
        t \in {u \in [cot : CoTBlocks, dec : LegacyDecisionBlocks] :
                 legacy_parse_llm_output(u).val # None}}

\* get_all_mids of the client: None, or the mid prices
LegacyMidsResponses ==
    {Return(None), Return(Some(<< >>)), Return(Some([s \in LegacySymbols |-> 100000]))}
\* _make_request on an order: None, an accepted or a rejected order
LegacyOrderResponses ==
    {Return(None), Return(Some([status |-> "ok"])), Return(Some([status |-> "err"]))}
LegacyUnusedEnv == [mids |-> Return(None), place |-> UnusedPlace]

\* the client's responses one legacy execute_decision call on d can consume
LegacyEnvsFor(d) ==
    {e \in [mids : LegacyMidsResponses,
            place : [main : LegacyOrderResponses, tp : LegacyOrderResponses,
                     sl : LegacyOrderResponses]] :
        LET cs == legacy_execute_decision(TRUE, d, e)
            made(px) == \E i \in DOMAIN cs :
                          cs[i].m = "place_order" /\ cs[i].limit_px = px
        IN  /\ (\A i \in DOMAIN cs : cs[i].m # "place_order" \/ cs[i].reduce_only)
                    => e.place.main = Unused
            /\ (d.profit_target = None \/ ~made(d.profit_target))
                    => e.place.tp = Unused
            /\ (d.stop_loss = None \/ ~made(d.stop_loss))
                    => e.place.sl = Unused}

LegacyInputs ==
    {[hyperliquid |-> FALSE, d |-> d, e |-> LegacyUnusedEnv] : d \in LegacyDecisions}
    \cup UNION {{[hyperliquid |-> TRUE, d |-> d, e |-> e] : e \in LegacyEnvsFor(d)} :
                d \in LegacyDecisions}

\* Direct calls of the sizer: entry and stop prices with the stop below, at
\* and above the entry, a zero and two positive risk budgets, and kline
\* sequences of 0, 14, 15 and 16 candles of two shapes
SizerEntries == {95000, 100000}
SizerStops == {90000, 100000, 110000}
SizerRisks == {0, 10, 20}
WideCandle == [h |-> 105000, l |-> 95000, c |-> 101000]
SizerKlineLens == {0, 14, 15, 16}
SizerKlineResponses ==
    {Raise} \cup {Return([i \in 1 .. n |-> cd]) :
                    n \in SizerKlineLens, cd \in {Candle, WideCandle}}
SizerInputs ==
    [symbol : Symbols, entry_price : SizerEntries, stop_loss_price : SizerStops,
     risk_usd : SizerRisks, klines : SizerKlineResponses]

\* the bound on the registry: a call that can add a key is explored only
\* while fewer than MaxBrackets keys are tracked
CanTrack(brackets, position_key) ==
    \/ position_key \in DOMAIN brackets
    \/ Cardinality(DOMAIN brackets) < MaxBrackets

-----------------------------------------------------------------------------
(* The venue adapters' place_order signatures and Python's keyword binding *)

\* def place_order(self, coin, is_buy, sz, limit_px, order_type="limit",
\*                 reduce_only=False) of the abstract interface
BaseExchange_place_order ==
    [params |-> {"coin", "is_buy", "sz", "limit_px", "order_type", "reduce_only"},
     required |-> {"coin", "is_buy", "sz", "limit_px"}]

\* def place_order(self, symbol, side, quantity, limit_px, order_type="LIMIT",
\*                 reduce_only=False)
BingXClient_place_order ==
    [params |-> {"symbol", "side", "quantity", "limit_px", "order_type", "reduce_only"},
     required |-> {"symbol", "side", "quantity", "limit_px"}]

\* def place_order(self, symbol, side, quantity, limit_px, order_type="limit",
\*                 reduce_only=False)
HyperliquidExchange_place_order ==
    [params |-> {"symbol", "side", "quantity", "limit_px", "order_type", "reduce_only"},
     required |-> {"symbol", "side", "quantity", "limit_px"}]

\* the adapter classes: the two concrete ones and an adapter that declares
\* place_order exactly as the interface does
ConcreteAdapters == {"BingXClient", "HyperliquidExchange"}
Adapters == ConcreteAdapters \cup {"BaseExchange"}

place_order_signature(adapter) ==
    CASE adapter = "BingXClient" -> BingXClient_place_order
      [] adapter = "HyperliquidExchange" -> HyperliquidExchange_place_order
      [] adapter = "BaseExchange" -> BaseExchange_place_order

\* the keyword arguments of the manager's entry-order call and of its
\* take-profit and stop-loss calls
main_order_keywords == {"coin", "is_buy", "sz", "limit_px", "order_type"}
leg_order_keywords == main_order_keywords \cup {"reduce_only"}

\* A call by keywords binds when every keyword names a declared parameter and
\* every parameter without a default receives a value; otherwise Python
\* raises TypeError before the method body runs.
binds(signature, keywords) ==
    /\ keywords \subseteq signature.params
    /\ signature.required \subseteq keywords

\* place_bracket_order of a manager whose exchange is an instance of the
\* adapter class: the TypeError of the entry-order call leaves the method
\* before any order reaches the adapter's place_order body
place_bracket_order_on(adapter, brackets, t, symbol, side, quantity, limit_px, take_profit_px, stop_loss_px, r) ==
    IF /\ binds(place_order_signature(adapter), main_order_keywords)
       /\ binds(place_order_signature(adapter), leg_order_keywords)
    THEN place_bracket_order(brackets, t, symbol, side, quantity, limit_px,
                             take_profit_px, stop_loss_px, r)
    ELSE [brackets |-> brackets, calls |-> <<>>, ret |-> None, exc |-> TRUE]

-----------------------------------------------------------------------------
(* Reading the adapter calls of an operation *)

Keys == Symbols \X Times

IsPlace == op.name = "place_bracket_order"
IsCancel == op.name = "cancel_bracket_order"

PlaceIdx(cs) == {i \in DOMAIN cs : cs[i].m = "place_order"}
CancelIdx(cs) == {i \in DOMAIN cs : cs[i].m = "cancel_order"}

\* the adapter acknowledged / refused (returned a failure value for) a call
Acked(c) == ~c.resp.raised /\ Truthy(c.resp.val)
Refused(c) == ~c.resp.raised /\ ~Truthy(c.resp.val)

\* the place_order calls of an operation, in the order made
PlaceCallsOf(cs) == SelectSeq(cs, LAMBDA c : c.m = "place_order")

MainAcked(cs) == PlaceCallsOf(cs) # <<>> /\ Acked(PlaceCallsOf(cs)[1])
MainRefused(cs) == PlaceCallsOf(cs) # <<>> /\ Refused(PlaceCallsOf(cs)[1])

-----------------------------------------------------------------------------
(* OrderManager.get_active_brackets and the dict it returns *)

\* return self.active_brackets.copy().  dict.copy() is shallow: the result is
\* a new dict whose values are the registry's own bracket dicts.  Each entry
\* of the snapshot is the bracket's content (ids) and whether it still is
\* the very dict object the registry holds under that key (shared).
get_active_brackets(brackets) ==
    [k \in DOMAIN brackets |-> [ids |-> brackets[k], shared |-> TRUE]]

\* What becomes of a snapshot when the registry drops or replaces the dicts
\* under the keys ks (del self.active_brackets[k], or the assignment of a
\* fresh bracket_ids dict): the snapshot keeps the old dicts, no longer
\* shared.
unshare(snap, ks) ==
    IF snap = None THEN None
    ELSE Some([k \in DOMAIN Val(snap) |->
                 IF k \in ks THEN [Val(snap)[k] EXCEPT !.shared = FALSE]
                 ELSE Val(snap)[k]])

\* the keys under which a call that made the adapter calls cs stored a
\* fresh bracket dict
stored_keys(key, cs, e) == IF MainAcked(cs) /\ ~e THEN {key} ELSE {}

\* snap[k][leg] = v by the caller: an item assignment on the bracket dict,
\* which the registry sees if it holds the same dict
set_leg_registry(brackets, snap, k, leg, v) ==
    IF Val(snap)[k].shared
    THEN [brackets EXCEPT ![k] = [@ EXCEPT ![leg] = v]]
    ELSE brackets

-----------------------------------------------------------------------------
(* Several agents, one thread each *)

\* A variant in which the bracket registry is one dict of the OrderManager
\* class, shared by every agent's manager.
order_manager_of_shared(agent) == CHOOSE m \in Agents : TRUE

\* self.order_manager = OrderManager(self.exchange): every agent builds its
\* own manager, and the manager's __init__ builds its own active_brackets
order_manager_of(agent) == agent

\* the registry an agent's placements and cancellations work on
registry(agent) == order_managers[order_manager_of(agent)]

\* The calls of the agents' threads: one bracket with both exit legs, answered
\* by full acknowledgement, by refusal of the entry order, or by an exception
\* of the take-profit call.
AgentPlaceInputs ==
    {a \in PlaceInputs :
        /\ a.side = "BUY" /\ a.tp # None /\ a.sl # None
        /\ \/ a.r = [main |-> Return(None), tp |-> Unused, sl |-> Unused]
           \/ a.r = [main |-> Return(Some(AckDict("orderId", LegIds.main))),
                     tp |-> Return(Some(AckDict("orderId", LegIds.tp))),
                     sl |-> Return(Some(AckDict("orderId", LegIds.sl)))]
           \/ a.r = [main |-> Return(Some(AckDict("orderId", LegIds.main))),
                     tp |-> Raise, sl |-> Unused]}

\* the arguments of a call in flight, without the adapter's answers
AgentPlaceArgs == {[x \in DOMAIN a \ {"r"} |-> a[x]] : a \in AgentPlaceInputs}

\* the cancellations of the agents' threads: every cancel_order call
\* acknowledged, or every one raising
AgentCancelResponseSets(brackets, position_key) ==
    {r \in CancelResponseSets(brackets, position_key) :
        \/ \A leg \in DOMAIN r : r[leg] \in {Unused, Return(Some([status |-> "ok"]))}
        \/ \A leg \in DOMAIN r : r[leg] \in {Unused, Raise}}

-----------------------------------------------------------------------------
(* The state machine *)

Init ==
    /\ active_brackets = << >>
    /\ now = 0
    /\ op = [name |-> "init"]
    /\ calls = <<>>
    /\ ret = None
    /\ exc = FALSE
    /\ invocation_count = 0
    /\ snapshot = None
    /\ order_managers = [m \in Agents |-> << >>]
    /\ threads = [a \in Agents |-> None]

\* the wall clock advances; no operation is in progress
Tick ==
    /\ now < MaxTime
    /\ now' = now + 1
    /\ op' = [name |-> "tick"]
    /\ calls' = <<>>
    /\ ret' = None
    /\ exc' = FALSE
    /\ UNCHANGED <<active_brackets, invocation_count, snapshot, order_managers, threads>>

\* OrderManager.place_bracket_order called directly
PlaceBracketOrder ==
    \E a \in PlaceInputs :
     \E res \in {place_bracket_order(active_brackets, now, a.symbol, a.side,
                                     a.quantity, a.limit_px, a.tp, a.sl, a.r)} :
      LET key == get_position_key(a.symbol, now)
      IN  /\ CanTrack(active_brackets, key)
          /\ op' = [name |-> "place_bracket_order", symbol |-> a.symbol,
                    side |-> a.side, quantity |-> a.quantity, limit_px |-> a.limit_px,
                    take_profit_px |-> a.tp, stop_loss_px |-> a.sl,
                    key |-> key, tracked |-> key \in DOMAIN active_brackets]
          /\ active_brackets' = res.brackets
          /\ calls' = res.calls
          /\ ret' = res.ret
          /\ exc' = res.exc
          /\ snapshot' = unshare(snapshot, stored_keys(key, res.calls, res.exc))
          /\ UNCHANGED <<now, invocation_count, order_managers, threads>>

\* OrderManager.place_bracket_order called on a manager built over the given
\* adapter class
PlaceBracketOrderOn ==
    \E adapter \in Adapters :
     \E a \in PlaceInputs :
      \E res \in {place_bracket_order_on(adapter, active_brackets, now, a.symbol,
                                          a.side, a.quantity, a.limit_px, a.tp,
                                          a.sl, a.r)} :
      LET key == get_position_key(a.symbol, now)
      IN  /\ CanTrack(active_brackets, key)
          /\ op' = [name |-> "place_bracket_order", adapter |-> adapter,
                    symbol |-> a.symbol, side |-> a.side,
                    quantity |-> a.quantity, limit_px |-> a.limit_px,
                    take_profit_px |-> a.tp, stop_loss_px |-> a.sl,
                    key |-> key, tracked |-> key \in DOMAIN active_brackets]
          /\ active_brackets' = res.brackets
          /\ calls' = res.calls
          /\ ret' = res.ret
          /\ exc' = res.exc
          /\ snapshot' = unshare(snapshot, stored_keys(key, res.calls, res.exc))
          /\ UNCHANGED <<now, invocation_count, order_managers, threads>>

\* OrderManager.cancel_bracket_order called directly
CancelBracketOrder ==
    \E position_key \in Symbols \X Times :
     \E r \in CancelResponseSets(active_brackets, position_key) :
      \E res \in {cancel_bracket_order(active_brackets, position_key, r)} :
          /\ op' = [name |-> "cancel_bracket_order", key |-> position_key,
                    tracked |-> position_key \in DOMAIN active_brackets]
          /\ active_brackets' = res.brackets
          /\ calls' = res.calls
          /\ ret' = res.ret
          /\ exc' = res.exc
          /\ snapshot' = unshare(snapshot, DOMAIN active_brackets \ DOMAIN res.brackets)
          /\ UNCHANGED <<now, invocation_count, order_managers, threads>>

\* LLMAgent.execute_decision called with a parsed decision
ExecuteDecision ==
    \E x \in ExecInputs :
     \E res \in {execute_decision(active_brackets, now, x.d, x.e)} :
      LET key == get_position_key(x.d.symbol, now)
      IN  /\ CanTrack(active_brackets, key)
          /\ op' = [name |-> "execute_decision", decision |-> x.d, key |-> key,
                    tracked |-> key \in DOMAIN active_brackets]
          /\ active_brackets' = res.brackets
          /\ calls' = res.calls
          /\ ret' = res.ret
          /\ exc' = res.exc
          /\ snapshot' = unshare(snapshot, stored_keys(key, res.calls, res.exc))
          /\ UNCHANGED <<now, invocation_count, order_managers, threads>>

\* LLMAgent.run_cycle
RunCycle ==
    /\ invocation_count < MaxCycles
    /\ \E c \in CycleInputs :
         \E out \in {run_cycle(active_brackets, now, c)} :
             /\ Cardinality(DOMAIN out.res.brackets) <= MaxBrackets
             /\ op' = [name |-> "run_cycle", prep |-> c.prep, llm |-> c.llm,
                       parsed |-> out.parsed, executed |-> out.executed]
             /\ active_brackets' = out.res.brackets
             /\ calls' = out.res.calls
             /\ ret' = out.res.ret
             /\ exc' = out.res.exc
             /\ invocation_count' = invocation_count + 1
             /\ snapshot' =
                  unshare(snapshot,
                          IF out.parsed.val = None THEN {}
                          ELSE stored_keys(
                                 get_position_key(Val(out.parsed.val).symbol, now),
                                 out.res.calls,
                                 \E n \in DOMAIN out.res.calls :
                                     out.res.calls[n].resp.raised))
             /\ UNCHANGED <<now, order_managers, threads>>

\* LLMAgent.run_cycle, the first cycle of an agent, over the wider range of
\* model outputs
RunFirstCycle ==
    /\ invocation_count = 0
    /\ \E c \in VariedCycleInputs :
         \E out \in {run_cycle(active_brackets, now, c)} :
             /\ op' = [name |-> "run_cycle", prep |-> c.prep, llm |-> c.llm,
                       parsed |-> out.parsed, executed |-> out.executed]
             /\ active_brackets' = out.res.brackets
             /\ calls' = out.res.calls
             /\ ret' = out.res.ret
             /\ exc' = out.res.exc
             /\ invocation_count' = invocation_count + 1
             /\ UNCHANGED <<now, snapshot, order_managers, threads>>

\* LLMAgent.run: one pass of the loop, run_cycle and then the sleep during
\* which the clock may advance.  An exception that escaped run_cycle would
\* have ended the thread.
Run ==
    /\ invocation_count < MaxRunCycles
    /\ ~(op.name = "run" /\ exc)
    /\ \E c \in RunInputs :
         \E out \in {run_cycle(active_brackets, now, c)} :
             /\ Cardinality(DOMAIN out.res.brackets) <= MaxBrackets
             /\ op' = [name |-> "run", prep |-> c.prep, llm |-> c.llm,
                       parsed |-> out.parsed, executed |-> out.executed]
             /\ active_brackets' = out.res.brackets
             /\ calls' = out.res.calls
             /\ ret' = out.res.ret
             /\ exc' = out.res.exc
             /\ invocation_count' = invocation_count + 1
             /\ UNCHANGED <<now, snapshot, order_managers, threads>>

\* execute_decision of a legacy agent, with or without a Hyperliquid client
LegacyExecuteDecision ==
    \E x \in LegacyInputs :
        /\ op' = [name |-> "legacy_execute_decision", hyperliquid |-> x.hyperliquid,
                  decision |-> x.d]
        /\ calls' = legacy_execute_decision(x.hyperliquid, x.d, x.e)
        /\ ret' = None
        /\ exc' = FALSE
        /\ UNCHANGED <<active_brackets, now, invocation_count, snapshot, order_managers, threads>>

\* LLMAgent.calculate_quantity_based_on_risk called directly
CalculateQuantity ==
    \E a \in SizerInputs :
     \E res \in {calculate_quantity_based_on_risk(a.symbol, a.entry_price,
                       a.stop_loss_price, a.risk_usd, a.klines)} :
        /\ op' = [name |-> "calculate_quantity_based_on_risk", symbol |-> a.symbol,
                  entry_price |-> a.entry_price,
                  stop_loss_price |-> a.stop_loss_price,
                  risk_usd |-> a.risk_usd, atr |-> res.atr]
        /\ calls' = <<KlinesCall(a.symbol, a.klines)>>
        /\ ret' = res.qty
        /\ exc' = res.exc
        /\ UNCHANGED <<active_brackets, now, invocation_count, snapshot, order_managers, threads>>

\* OrderManager.get_active_brackets called; the caller keeps the result
GetActiveBrackets ==
    /\ snapshot = None
    /\ snapshot' = Some(get_active_brackets(active_brackets))
    /\ op' = [name |-> "get_active_brackets"]
    /\ calls' = <<>>
    /\ ret' = None
    /\ exc' = FALSE
    /\ UNCHANGED <<active_brackets, now, invocation_count, order_managers, threads>>

\* the caller assigns a leg id inside an entry of the dict it got
SnapshotSetLeg ==
    /\ snapshot # None
    /\ \E k \in DOMAIN Val(snapshot), leg \in {"main"} :
         LET v == Some("x")
         IN  /\ Val(snapshot)[k].ids[leg] # v
             /\ snapshot' = Some([Val(snapshot) EXCEPT ![k].ids[leg] = v])
             /\ active_brackets' = set_leg_registry(active_brackets, snapshot, k, leg, v)
             /\ op' = [name |-> "snapshot_set_leg", key |-> k, leg |-> leg]
    /\ calls' = <<>>
    /\ ret' = None
    /\ exc' = FALSE
    /\ UNCHANGED <<now, invocation_count, order_managers, threads>>

\* the caller adds a key of its own to the dict it got
SnapshotAddKey ==
    /\ snapshot # None
    /\ \E k \in {<<"ETH", 0>>} \ DOMAIN Val(snapshot) :
         /\ snapshot' =
              Some([j \in DOMAIN Val(snapshot) \cup {k} |->
                      IF j = k
                      THEN [ids |-> [main |-> Some("x"), tp |-> None, sl |-> None],
                            shared |-> FALSE]
                      ELSE Val(snapshot)[j]])
         /\ op' = [name |-> "snapshot_add_key", key |-> k]
    /\ calls' = <<>>
    /\ ret' = None
    /\ exc' = FALSE
    /\ UNCHANGED <<active_brackets, now, invocation_count, order_managers, threads>>

\* the caller deletes a key from the dict it got
SnapshotDelKey ==
    /\ snapshot # None
    /\ \E k \in DOMAIN Val(snapshot) :
         /\ snapshot' = Some([j \in DOMAIN Val(snapshot) \ {k} |-> Val(snapshot)[j]])
         /\ op' = [name |-> "snapshot_del_key", key |-> k]
    /\ calls' = <<>>
    /\ ret' = None
    /\ exc' = FALSE
    /\ UNCHANGED <<active_brackets, now, invocation_count, order_managers, threads>>

\* An agent's thread enters place_bracket_order: the position key is taken
\* from the clock and the entry order is sent.
AgentPlaceBegin ==
    \E agent \in Agents :
     \E a \in AgentPlaceArgs :
        /\ threads[agent] = None
        /\ CanTrack(registry(agent), get_position_key(a.symbol, now))
        /\ threads' = [threads EXCEPT ![agent] = Some([args |-> a, t |-> now])]
        /\ op' = [name |-> "enter_place_bracket_order", agent |-> agent]
        /\ calls' = <<>>
        /\ ret' = None
        /\ exc' = FALSE
        /\ UNCHANGED <<active_brackets, now, invocation_count, snapshot,
                       order_managers>>

\* The adapter's answers arrive and the agent's place_bracket_order call
\* finishes; other threads may have run in between.
AgentPlaceEnd ==
    \E agent \in Agents :
        /\ threads[agent] # None
        /\ LET a == Val(threads[agent]).args
               t == Val(threads[agent]).t
           IN  \E i \in {x \in AgentPlaceInputs : [f \in DOMAIN a |-> x[f]] = a} :
                \E res \in {place_bracket_order(registry(agent), t, a.symbol,
                                                 a.side, a.quantity, a.limit_px,
                                                 a.tp, a.sl, i.r)} :
                    /\ order_managers' =
                         [order_managers EXCEPT ![order_manager_of(agent)] = res.brackets]
                    /\ op' = [name |-> "place_bracket_order", agent |-> agent,
                              key |-> get_position_key(a.symbol, t)]
                    /\ calls' = res.calls
                    /\ ret' = res.ret
                    /\ exc' = res.exc
        /\ threads' = [threads EXCEPT ![agent] = None]
        /\ UNCHANGED <<active_brackets, now, invocation_count, snapshot>>

\* an agent's thread calls cancel_bracket_order on its manager
AgentCancel ==
    \E agent \in Agents :
     \E position_key \in Symbols \X Times :
      \E r \in AgentCancelResponseSets(registry(agent), position_key) :
       \E res \in {cancel_bracket_order(registry(agent), position_key, r)} :
          /\ threads[agent] = None
          /\ order_managers' =
               [order_managers EXCEPT ![order_manager_of(agent)] = res.brackets]
          /\ op' = [name |-> "cancel_bracket_order", agent |-> agent,
                    key |-> position_key]
          /\ calls' = res.calls
          /\ ret' = res.ret
          /\ exc' = res.exc
          /\ UNCHANGED <<active_brackets, now, invocation_count, snapshot, threads>>

\* the bracket order manager driven directly
Next ==
    \/ Tick
    \/ PlaceBracketOrder
    \/ CancelBracketOrder

Spec == Init /\ [][Next]_vars

\* one broker-agnostic agent
NextAgent ==
    \/ ExecuteDecision
    \/ RunCycle

SpecAgent == Init /\ [][NextAgent]_vars

\* a manager and a caller that holds a dict got from get_active_brackets
NextSnapshot ==
    \/ PlaceBracketOrder
    \/ CancelBracketOrder
    \/ GetActiveBrackets
    \/ SnapshotSetLeg
    \/ SnapshotAddKey
    \/ SnapshotDelKey

SpecSnapshot == Init /\ [][NextSnapshot]_vars

\* the order manager over each adapter class
NextAdapters == Tick \/ PlaceBracketOrderOn

SpecAdapters == Init /\ [][NextAdapters]_vars

\* the agents started by main, their threads interleaved
NextAgents ==
    \/ Tick
    \/ AgentPlaceBegin
    \/ AgentPlaceEnd
    \/ AgentCancel

SpecAgents == Init /\ [][NextAgents]_vars

\* one cycle of a fresh agent at either second of the clock
NextCycle == Tick \/ RunFirstCycle

SpecCycle == Init /\ [][NextCycle]_vars

\* the run loop of one agent; the thread is scheduled again and again, so a
\* pass of the loop that can be made is eventually made
NextRun == Tick \/ Run

SpecRun == Init /\ [][NextRun]_vars /\ WF_vars(Run)

\* the risk sizer called on its own
NextSizer == CalculateQuantity

SpecSizer == Init /\ [][NextSizer]_vars

\* one legacy agent; Tick separates its calls in time
NextLegacy ==
    \/ Tick
    \/ LegacyExecuteDecision

SpecLegacy == Init /\ [][NextLegacy]_vars

-----------------------------------------------------------------------------
(* Vocabulary of the properties *)

\* The lifecycle status of a tracked or returned bracket.  The code stores
\* no status: a bracket is the dict of its three leg ids, so the status is
\* read off the ids.
BracketStatus(b) ==
    IF Truthy(b.main) /\ Truthy(b.tp) /\ Truthy(b.sl)
    THEN "ACTIVE" ELSE "PARTIALLY_PLACED"

-----------------------------------------------------------------------------
(* C1 *)

\* C1: whenever the adapter returns a failure value for the entry order of a
\* place_bracket_order call, the call returns None, exactly one place_order
\* call (and no other adapter call) was made, whatever take-profit and
\* stop-loss prices were passed, and active_brackets is what it was before.
C1_MainFailureAborts ==
    [][(IsPlace' /\ MainRefused(calls'))
         => /\ ret' = None
            /\ ~exc'
            /\ Len(calls') = 1
            /\ calls'[1].m = "place_order" /\ ~calls'[1].reduce_only
            /\ active_brackets' = active_brackets]_vars

\* a failed entry order with both exit prices passed and a bracket tracked
C1_Witness ==
    /\ IsPlace /\ MainRefused(calls)
    /\ TruthyNum(op.take_profit_px) /\ TruthyNum(op.stop_loss_px)
    /\ DOMAIN active_brackets # {}

-----------------------------------------------------------------------------
(* C2 *)

\* C2: in every place_bracket_order call given both a take-profit and a
\* stop-loss price, whose entry order is acknowledged and whose take-profit
\* placement fails, the stop-loss placement is still attempted (three
\* place_order calls), no cancel_order call is made, and the returned
\* bracket has status PARTIALLY_PLACED, its main order id set and its
\* take-profit order id null.
C2_PartialPlacement ==
    (/\ IsPlace
     /\ TruthyNum(op.take_profit_px) /\ TruthyNum(op.stop_loss_px)
     /\ MainAcked(calls)
     /\ Len(calls) >= 2 /\ Refused(calls[2]))
      => /\ Len(calls) = 3
         /\ CancelIdx(calls) = {}
         /\ ~exc =>
              /\ ret # None
              /\ BracketStatus(Val(ret)) = "PARTIALLY_PLACED"
              /\ Val(ret).main # None
              /\ Val(ret).tp = None

-----------------------------------------------------------------------------
(* C3 *)

IsExec == op.name = "execute_decision"
IsCycle == op.name = "run_cycle"
IsLegacyExec == op.name = "legacy_execute_decision"

\* C3: an execute_decision call of the broker-agnostic agent on a decision
\* whose action is HOLD makes no adapter call at all (no place_order, no
\* cancel_order, no get_all_mids, no get_klines), raises nothing and leaves
\* the bracket registry as it was, whatever the other fields of the decision.
C3_HoldTouchesNothing ==
    [][(IsExec' /\ op'.decision.action = "HOLD")
         => /\ calls' = <<>>
            /\ ~exc'
            /\ active_brackets' = active_brackets]_vars

\* a HOLD decision carrying a stop, a target, a risk budget and a positive
\* quantity, executed while a bracket is tracked
C3_Witness ==
    /\ IsExec /\ op.decision.action = "HOLD"
    /\ TruthyNum(op.decision.stop_loss) /\ TruthyNum(op.decision.profit_target)
    /\ TruthyNum(op.decision.risk_usd) /\ op.decision.quantity > 0
    /\ calls = <<>>
    /\ DOMAIN active_brackets # {}

-----------------------------------------------------------------------------
(* C4 *)

\* the venue accepted the order request c of the Hyperliquid client
OrderAccepted(c) == Acked(c) /\ Val(c.resp.val).status = "ok"

\* C4: on every execution path, the legacy one included, executing a
\* decision whose action is HOLD places no order at the venue, whatever its
\* quantity, stop_loss and profit_target: the broker-agnostic agent makes no
\* place_order call, and no order request of the legacy agent's client is
\* accepted by the venue.
C4_HoldPlacesNoOrder ==
    /\ (IsExec /\ op.decision.action = "HOLD") => PlaceIdx(calls) = {}
    /\ (IsLegacyExec /\ op.decision.action = "HOLD")
          => \A i \in PlaceIdx(calls) : ~OrderAccepted(calls[i])

-----------------------------------------------------------------------------
(* C5 *)

\* C5: cancel_bracket_order with a position key that is not in the registry
\* raises nothing, makes no adapter call and leaves the registry as it was,
\* whatever the registry holds.
C5_CancelUnknownIsNoop ==
    [][(IsCancel' /\ op'.key \notin DOMAIN active_brackets)
         => /\ ~exc'
            /\ calls' = <<>>
            /\ active_brackets' = active_brackets]_vars

\* an unknown key cancelled while another bracket is tracked
C5_Witness ==
    /\ IsCancel /\ ~op.tracked
    /\ ~exc /\ calls = <<>>
    /\ DOMAIN active_brackets # {}

-----------------------------------------------------------------------------
(* C6 *)

\* C6: cancel_bracket_order on a tracked key makes exactly one cancel_order
\* call (for the key's symbol) for every non-null leg id of the bracket and
\* none for a null leg, whatever each cancellation returns or raises; no
\* exception escapes; afterwards the key is absent from the registry and
\* every other entry is unchanged.
C6_CancelTrackedBestEffort ==
    [][(IsCancel' /\ op'.key \in DOMAIN active_brackets)
         => LET b == active_brackets[op'.key]
                legs == {"main", "tp", "sl"}
            IN  /\ ~exc'
                /\ \A i \in DOMAIN calls' :
                      calls'[i].m = "cancel_order" /\ calls'[i].coin = op'.key[1]
                /\ \A leg \in legs :
                      Cardinality({i \in DOMAIN calls' : calls'[i].order_id = b[leg]})
                        = IF b[leg] # None THEN 1 ELSE 0
                /\ Len(calls') = Cardinality({leg \in legs : b[leg] # None})
                /\ op'.key \notin DOMAIN active_brackets'
                /\ \A k \in DOMAIN active_brackets \ {op'.key} :
                      k \in DOMAIN active_brackets'
                        /\ active_brackets'[k] = active_brackets[k]]_vars

\* a bracket with three legs cancelled: the first cancellation raised, the
\* second returned a failure value, the third was still attempted
C6_Witness ==
    /\ IsCancel /\ op.tracked
    /\ Len(calls) = 3
    /\ calls[1].resp.raised
    /\ Refused(calls[2])
    /\ op.key \notin DOMAIN active_brackets

-----------------------------------------------------------------------------
(* C7 *)

AllLegsAcked(cs) == Len(PlaceCallsOf(cs)) = 3 /\ \A i \in DOMAIN cs : Acked(cs[i])

\* C7: the status of a bracket changes only along the listed transitions.  A
\* key enters the registry only by a place_bracket_order call whose entry
\* order was acknowledged, as ACTIVE exactly when entry, take-profit and
\* stop-loss were all acknowledged and as PARTIALLY_PLACED otherwise; a
\* tracked bracket never changes between ACTIVE and PARTIALLY_PLACED; it
\* leaves the registry only by cancel_bracket_order of its key; and a call
\* that returns with an acknowledged entry order leaves its bracket tracked
\* (not in PLACING).
C7_LifecycleTransitions ==
    [][\A k \in Keys :
        LET was == k \in DOMAIN active_brackets
            is == k \in DOMAIN active_brackets'
        IN  /\ (~was /\ is)
                 => /\ IsPlace' /\ op'.key = k /\ MainAcked(calls')
                    /\ (BracketStatus(active_brackets'[k]) = "ACTIVE")
                          <=> AllLegsAcked(calls')
            /\ (was /\ is)
                 => BracketStatus(active_brackets'[k])
                      = BracketStatus(active_brackets[k])
            /\ (was /\ ~is) => (IsCancel' /\ op'.key = k)
            /\ (IsPlace' /\ op'.key = k /\ ~exc' /\ MainAcked(calls')) => is]_vars

-----------------------------------------------------------------------------
(* C8 *)

\* C8: an entry is added only by a placement whose entry order was
\* acknowledged, never by one whose entry order failed, and an entry
\* disappears or has its recorded leg ids replaced only by
\* cancel_bracket_order of its key.
C8_RegistryTracksPlacements ==
    [][\A k \in Keys :
        LET was == k \in DOMAIN active_brackets
            is == k \in DOMAIN active_brackets'
        IN  /\ (~was /\ is) => (IsPlace' /\ op'.key = k /\ MainAcked(calls'))
            /\ (IsPlace' /\ ~MainAcked(calls')) => (was <=> is)
            /\ (was /\ (~is \/ active_brackets'[k] # active_brackets[k]))
                 => (IsCancel' /\ op'.key = k)]_vars

-----------------------------------------------------------------------------
(* C9 *)

\* C9: whenever the entry order was acknowledged during a cycle, then at the
\* end of the cycle (the placement returned, or a later take-profit or
\* stop-loss place_order call raised and the cycle caught it) the registry
\* holds an entry under the bracket's key that records the acknowledged
\* entry order id and the id of every exit leg acknowledged so far.
C9_AckedEntryTracked ==
    (IsCycle /\ MainAcked(calls))
      => LET k == get_position_key(Val(op.parsed.val).symbol, now)
             pcs == PlaceCallsOf(calls)
         IN  /\ k \in DOMAIN active_brackets
             /\ active_brackets[k].main = AckId(pcs[1].resp)
             /\ \A i \in 2 .. Len(pcs) :
                   Acked(pcs[i])
                     => AckId(pcs[i].resp)
                          \in {active_brackets[k].tp, active_brackets[k].sl}

-----------------------------------------------------------------------------
(* C10 *)

\* the model output of the cycle lacks one of its two blocks
LacksBlock ==
    /\ IsCycle /\ op.prep = "ok"
    /\ ~op.llm.raised /\ op.llm.val # None
    /\ Val(op.llm.val).cot = None \/ Val(op.llm.val).dec = None

\* C10: in a cycle whose model output lacks the CHAIN_OF_THOUGHT block or
\* lacks a matching TRADING_DECISIONS block, parse_llm_output yields no
\* decision (None, not a decision built from the block that is there),
\* execute_decision is not called and no adapter call, so no place_order
\* call, is made.
C10_MissingBlockNoDecision ==
    LacksBlock
      => /\ op.parsed.val = None
         /\ ~op.executed
         /\ calls = <<>>

\* a cycle whose output has a well-formed BUY decision block for BTC but no
\* chain of thought
C10_Witness ==
    /\ LacksBlock
    /\ Val(op.llm.val).cot = None
    /\ Val(op.llm.val).dec # None
    /\ Val(Val(op.llm.val).dec).action = "BUY"
    /\ Val(Val(op.llm.val).dec).quantity = Some(2)
    /\ Val(Val(op.llm.val).dec).symbol = "BTC"
    /\ ~op.executed
    /\ invocation_count = 1

-----------------------------------------------------------------------------
(* C11 *)

\* the cycle's model output, when the model returned one
HasOutput == IsCycle /\ op.prep = "ok" /\ ~op.llm.raised /\ op.llm.val # None
Output == Val(op.llm.val)

\* a symbol entry as the grammar of the Decision Validator describes it:
\* signal, non-empty justification, confidence and leverage in range; stop,
\* target and risk optional
GrammarEntry(e) ==
    /\ e.signal \in {"HOLD", "BUY", "SELL"}
    /\ e.justification # None /\ Val(e.justification) # ""
    /\ e.confidence >= 0 /\ e.confidence <= 100
    /\ e.leverage >= 1 /\ e.leverage <= 100

\* a well-formed two-block text whose decision names a symbol of the
\* reasoning block
WellFormed(text) ==
    /\ text.cot # None /\ text.dec # None
    /\ Val(text.dec).quantity # None
    /\ Val(text.dec).action \in {"HOLD", "BUY", "SELL"}
    /\ Val(text.dec).symbol \in DOMAIN Val(text.cot)
    /\ \A sym \in DOMAIN Val(text.cot) : GrammarEntry(Val(text.cot)[sym])

\* C11: round trip of the Decision Validator.  For every well-formed
\* two-block text, parse_llm_output returns a decision whose symbol, action
\* and confidence are those of the decision block and whose leverage,
\* stop-loss, profit target and risk are those of the symbol's entry in the
\* reasoning block.
C11_ParseRoundTrip ==
    (HasOutput /\ WellFormed(Output))
      => /\ op.parsed.val # None
         /\ LET d == Val(op.parsed.val)
                 dec == Val(Output.dec)
                 entry == Val(Output.cot)[dec.symbol]
             IN  /\ d.symbol = dec.symbol
                 /\ d.action = dec.action
                 /\ d.confidence = dec.pct
                 /\ d.leverage = Some(entry.leverage)
                 /\ d.stop_loss = entry.stop_loss
                 /\ d.profit_target = entry.profit_target
                 /\ d.risk_usd = entry.risk_usd

-----------------------------------------------------------------------------
(* C12 *)

\* C12: if any symbol entry of the reasoning block violates the schema
\* (signal outside the three literals, confidence outside [0,1], leverage
\* outside 1..100, justification missing or empty), parse_llm_output yields
\* no decision, whatever the decision block says, and the cycle makes no
\* place_order call.
C12_SchemaViolationNoDecision ==
    (/\ HasOutput
     /\ Output.cot # None
     /\ \E sym \in DOMAIN Val(Output.cot) : ~GrammarEntry(Val(Output.cot)[sym]))
      => /\ op.parsed.val = None
         /\ ~op.executed
         /\ PlaceIdx(calls) = {}

-----------------------------------------------------------------------------
(* C13 *)

IsSizer == op.name = "calculate_quantity_based_on_risk"
\* the klines get_klines returned to the sizer, when it returned
KlinesReturned == ~calls[1].resp.raised
SizerKlines == calls[1].resp.val
StopDistance ==
    IF op.entry_price >= op.stop_loss_price
    THEN op.entry_price - op.stop_loss_price
    ELSE op.stop_loss_price - op.entry_price

-----------------------------------------------------------------------------
(* C14 *)

-----------------------------------------------------------------------------
(* C15 *)

-----------------------------------------------------------------------------
(* C16 *)

IsSnapshotChange ==
    op.name \in {"snapshot_set_leg", "snapshot_add_key", "snapshot_del_key"}

\* what the caller sees in the dict it holds
SnapshotContent(snap) ==
    IF snap = None THEN None
    ELSE Some([k \in DOMAIN Val(snap) |-> Val(snap)[k].ids])

\* C16: the dict returned by get_active_brackets is a copy.  No change the
\* caller makes to it (adding a key, deleting a key, assigning a leg id
\* inside one of its entries) changes the manager's registry, and no later
\* placement or cancellation changes what a dict returned earlier holds.
C16_SnapshotIsACopy ==
    [][/\ IsSnapshotChange' => active_brackets' = active_brackets
       /\ (IsPlace' \/ IsCancel')
            => SnapshotContent(snapshot') = SnapshotContent(snapshot)]_vars

-----------------------------------------------------------------------------
(* C17 *)

\* the place_order calls after the first that carry the price px
LegCallsAt(cs, px) ==
    {i \in 2 .. Len(PlaceCallsOf(cs)) : PlaceCallsOf(cs)[i].limit_px = px}

\* C17: in every place_bracket_order call whose entry order is acknowledged,
\* the take-profit leg is placed iff a take-profit price was passed and the
\* stop-loss leg iff a stop-loss price was passed; every leg is reduce-only,
\* on the side opposite to the entry order, for its symbol and quantity, at
\* the price passed; the entry order is not reduce-only.
C17_LegsFollowPrices ==
    (IsPlace /\ MainAcked(calls))
      => LET pcs == PlaceCallsOf(calls)
             tps == LegCallsAt(calls, op.take_profit_px)
             sls == LegCallsAt(calls, op.stop_loss_px)
         IN  /\ ~pcs[1].reduce_only
             /\ (tps # {}) <=> (op.take_profit_px # None)
             /\ (sls # {}) <=> (op.stop_loss_px # None)
             /\ \A i \in 2 .. Len(pcs) :
                   /\ i \in tps \cup sls
                   /\ pcs[i].reduce_only
                   /\ pcs[i].is_buy = ~pcs[1].is_buy
                   /\ pcs[i].coin = pcs[1].coin
                   /\ pcs[i].sz = pcs[1].sz

-----------------------------------------------------------------------------
(* C20 *)

\* C20: one place_bracket_order call makes only place_order calls, at most
\* three and never a cancel_order call: the entry order first, then the
\* take-profit, then the stop-loss; the exit legs only after the entry order
\* was acknowledged; and no leg twice, whatever the adapter answered.
C20_LegOrderNoRetry ==
    IsPlace
      => /\ \A i \in DOMAIN calls : calls[i].m = "place_order"
         /\ Len(calls) >= 1 /\ Len(calls) <= 3
         /\ ~calls[1].reduce_only /\ calls[1].limit_px = Some(op.limit_px)
         /\ Len(calls) >= 2 => Acked(calls[1])
         /\ \A i \in 2 .. Len(calls) :
               /\ calls[i].reduce_only
               /\ calls[i].limit_px \in {op.take_profit_px, op.stop_loss_px}
               /\ calls[i].limit_px # None
         /\ Cardinality(LegCallsAt(calls, op.take_profit_px)) <= 1
         /\ Cardinality(LegCallsAt(calls, op.stop_loss_px)) <= 1
         /\ \A i \in LegCallsAt(calls, op.take_profit_px) :
               \A j \in LegCallsAt(calls, op.stop_loss_px) : i < j

\* both exit legs refused by the adapter, each attempted once, in order
C20_Witness ==
    /\ IsPlace /\ Len(calls) = 3
    /\ Acked(calls[1]) /\ Refused(calls[2]) /\ Refused(calls[3])
    /\ calls[2].limit_px = op.take_profit_px
    /\ calls[3].limit_px = op.stop_loss_px

-----------------------------------------------------------------------------
(* C19 *)

\* C19: a place_bracket_order call on a manager over BingXClient or
\* HyperliquidExchange reaches the adapter's place_order as an order for the
\* call's symbol and quantity, a buy order when the side is BUY and a sell
\* order when it is SELL.
C19_AdaptersSatisfyInterface ==
    (op.name = "place_bracket_order" /\ op.adapter \in ConcreteAdapters)
      => /\ ~exc
         /\ PlaceCallsOf(calls) # <<>>
         /\ PlaceCallsOf(calls)[1].coin = op.symbol
         /\ PlaceCallsOf(calls)[1].sz = op.quantity
         /\ PlaceCallsOf(calls)[1].is_buy = (op.side = "BUY")

-----------------------------------------------------------------------------
(* C18 *)

\* the last step was a placement or a cancellation by the agent
ActedOnRegistry(agent) ==
    /\ op.name \in {"place_bracket_order", "cancel_bracket_order"}
    /\ op.agent = agent

\* C18: no two agents work on the same registry, and a placement or a
\* cancellation by one agent leaves the registry of every other agent as it
\* was, whatever the threads did in between.
C18_RegistriesPerAgent ==
    [][\A a \in Agents : \A b \in Agents \ {a} :
          /\ order_manager_of(a) # order_manager_of(b)
          /\ ActedOnRegistry(a)' => registry(b)' = registry(b)]_vars

\* an agent stores a bracket under a key that another agent's registry also
\* holds, while that agent has a placement in flight
C18_Witness ==
    \E a \in Agents : \E b \in Agents \ {a} :
        /\ ActedOnRegistry(a) /\ op.name = "place_bracket_order"
        /\ op.key \in DOMAIN registry(a)
        /\ op.key \in DOMAIN registry(b)
        /\ threads[b] # None

-----------------------------------------------------------------------------
(* C21 *)

\* get_all_mids returned a map that has no price for the decision's symbol
NoReferencePrice ==
    /\ IsExec /\ op.decision.action \in {"BUY", "SELL"}
    /\ calls # <<>> /\ calls[1].m = "get_all_mids"
    /\ ~calls[1].resp.raised
    /\ op.decision.symbol \notin DOMAIN calls[1].resp.val

\* C21: an execute_decision call on a BUY or SELL decision whose symbol has
\* no price in the map get_all_mids returned (the empty map included) makes
\* no other adapter call (no get_klines, so no sizing, and no place_order),
\* raises nothing and leaves the registry as it was.
C21_NoReferencePriceAborts ==
    [][NoReferencePrice'
         => /\ Len(calls') = 1
            /\ ~exc'
            /\ active_brackets' = active_brackets]_vars

\* a BUY decision with a stop and a risk budget meets an empty price map
\* while a bracket is tracked
C21_Witness ==
    /\ NoReferencePrice
    /\ op.decision.action = "BUY"
    /\ TruthyNum(op.decision.stop_loss) /\ TruthyNum(op.decision.risk_usd)
    /\ calls[1].resp.val = << >>
    /\ DOMAIN active_brackets # {}

\* a SELL decision for a symbol that a non-empty price map does not have
C21_WitnessOtherSymbol ==
    /\ NoReferencePrice
    /\ op.decision.action = "SELL"
    /\ calls[1].resp.val # << >>

-----------------------------------------------------------------------------
(* C22 *)

\* the decision the cycle parsed and the parts of its execution
Parsed == Val(op.parsed.val)
ParsedCycle == IsCycle /\ op.parsed.val # None /\ op.executed
CallsTo(m) == {i \in DOMAIN calls : calls[i].m = m}
MidsReturned == calls[CHOOSE i \in CallsTo("get_all_mids") : TRUE].resp.val
KlinesResponse == calls[CHOOSE i \in CallsTo("get_klines") : TRUE].resp

\* the cycle executed a BUY or SELL decision and get_all_mids returned a
\* price for its symbol
PricedTrade ==
    /\ ParsedCycle /\ Parsed.action \in {"BUY", "SELL"}
    /\ CallsTo("get_all_mids") # {}
    /\ Parsed.symbol \in DOMAIN MidsReturned

\* C22: when a BUY or SELL decision is executed with a reference price, the
\* sizer is invoked (get_klines is called) exactly when the decision carries
\* both a stop-loss and a risk amount, and the entry order then has the
\* quantity the sizer returns, risk over stop distance; when either is
\* absent the sizer is not invoked and an entry order has the quantity of
\* the decision block.
C22_SizerIffStopAndRisk ==
    PricedTrade
      => LET both == Parsed.stop_loss # None /\ Parsed.risk_usd # None
             sized == quantity_formula(
                          Val(Parsed.risk_usd),
                          Abs(MidsReturned[Parsed.symbol] - Val(Parsed.stop_loss)),
                          None)
             raw == [n |-> Parsed.quantity, d |-> 1]
         IN  /\ (CallsTo("get_klines") # {}) <=> both
             /\ \A i \in PlaceIdx(calls) :
                   calls[i].sz = IF both THEN sized ELSE raw

-----------------------------------------------------------------------------
(* C23 *)

\* the quantity execute_decision arrived at: the sizer's when it was invoked
\* and returned one, the decision block's when it was not invoked
SizerReturned ==
    /\ CallsTo("get_klines") # {}
    /\ ~KlinesResponse.raised
    /\ ~not_enough_klines(KlinesResponse.val)
ArrivedQuantity ==
    IF CallsTo("get_klines") # {}
    THEN quantity_formula(Val(Parsed.risk_usd),
                          Abs(MidsReturned[Parsed.symbol] - Val(Parsed.stop_loss)),
                          None)
    ELSE [n |-> Parsed.quantity, d |-> 1]

\* C23: every place_order call of a cycle carries a quantity above zero, and
\* a priced BUY or SELL decision whose sized or fallback quantity is zero or
\* negative leads to no place_order call at all.
C23_OnlyPositiveQuantities ==
    /\ IsCycle => \A i \in PlaceIdx(calls) : calls[i].sz.n > 0 /\ calls[i].sz.d > 0
    /\ (PricedTrade /\ (CallsTo("get_klines") # {} => SizerReturned)
           /\ ArrivedQuantity.n <= 0)
          => PlaceIdx(calls) = {} /\ active_brackets = << >>

\* a negative risk amount: the sizer ran on 15 candles and returned a
\* negative quantity, and nothing was placed
C23_Witness ==
    /\ PricedTrade /\ Parsed.action = "BUY"
    /\ Parsed.risk_usd = Some(-10)
    /\ SizerReturned
    /\ ArrivedQuantity.n < 0
    /\ PlaceIdx(calls) = {}

\* a decision block with QUANTITY 0 and no stop: nothing was placed
C23_WitnessZeroFallback ==
    /\ PricedTrade /\ Parsed.action = "SELL"
    /\ CallsTo("get_klines") = {}
    /\ Parsed.quantity = 0
    /\ PlaceIdx(calls) = {}

-----------------------------------------------------------------------------
(* C24 *)

\* the two blocks of the model output of the cycle
TextCoT == Val(Val(op.llm.val).cot)
TextDec == Val(Val(op.llm.val).dec)

\* the cycle parsed a decision for a symbol the chain of thought has
ParsedInCoT ==
    /\ IsCycle /\ op.parsed.val # None
    /\ TextDec.symbol \in DOMAIN TextCoT

\* C24: the parsed decision has the symbol, action, confidence and
\* justification of the decision block and the leverage, stop-loss, profit
\* target and risk of the structured entry of that symbol, also when the two
\* disagree; a decision block saying BUY over a structured signal HOLD is
\* executed, and every entry order it leads to is a buy order.
C24_MergePrefersDecisionBlock ==
    ParsedInCoT
      => LET entry == TextCoT[TextDec.symbol]
         IN  /\ Parsed.symbol = TextDec.symbol
             /\ Parsed.action = TextDec.action
             /\ Parsed.confidence = TextDec.pct
             /\ Parsed.justification = TextDec.justification
             /\ Parsed.leverage = Some(entry.leverage)
             /\ Parsed.stop_loss = entry.stop_loss
             /\ Parsed.profit_target = entry.profit_target
             /\ Parsed.risk_usd = entry.risk_usd
             /\ (entry.signal = "HOLD" /\ TextDec.action = "BUY")
                   => /\ op.executed
                      /\ \A i \in PlaceIdx(calls) :
                            ~calls[i].reduce_only => calls[i].is_buy

\* structured signal HOLD, decision block BUY with another confidence and
\* justification: the entry order was placed as a buy and acknowledged
C24_Witness ==
    /\ ParsedInCoT
    /\ TextCoT[TextDec.symbol].signal = "HOLD" /\ TextDec.action = "BUY"
    /\ TextCoT[TextDec.symbol].confidence # TextDec.pct
    /\ TextCoT[TextDec.symbol].justification # Some(TextDec.justification)
    /\ MainAcked(calls)
    /\ PlaceCallsOf(calls)[1].is_buy
    /\ DOMAIN active_brackets # {}

-----------------------------------------------------------------------------
(* C25 *)

\* the cycle's decision block names a symbol the valid chain of thought
\* does not have
SymbolNotInCoT ==
    /\ IsCycle /\ op.prep = "ok" /\ ~op.llm.raised /\ op.llm.val # None
    /\ Val(op.llm.val).cot # None /\ Val(op.llm.val).dec # None
    /\ ValidChainOfThought(TextCoT)
    /\ TextDec.quantity # None
    /\ TextDec.symbol \notin DOMAIN TextCoT

\* C25: when the symbol of the decision block is not in the valid chain of
\* thought, parse_llm_output still returns a decision: symbol, action,
\* confidence and justification of the decision block, leverage
\* unspecified, no stop-loss and no profit target; executing it makes at
\* most one place_order call, the entry order, and no reduce-only one.
C25_AbsentSymbolDefaults ==
    SymbolNotInCoT
      => /\ ~op.parsed.exc /\ op.parsed.val # None
         /\ Parsed.symbol = TextDec.symbol
         /\ Parsed.action = TextDec.action
         /\ Parsed.confidence = TextDec.pct
         /\ Parsed.justification = TextDec.justification
         /\ Parsed.leverage = None
         /\ Parsed.stop_loss = None
         /\ Parsed.profit_target = None
         /\ Cardinality(PlaceIdx(calls)) <= 1
         /\ \A i \in PlaceIdx(calls) : ~calls[i].reduce_only

\* a BUY for ETH over a chain of thought that has BTC only, with a stop and
\* a target: the entry order alone was placed and acknowledged
C25_Witness ==
    /\ SymbolNotInCoT
    /\ TextDec.action = "BUY"
    /\ TextCoT["BTC"].stop_loss # None /\ TextCoT["BTC"].profit_target # None
    /\ MainAcked(calls)
    /\ Len(PlaceCallsOf(calls)) = 1
    /\ DOMAIN active_brackets # {}

-----------------------------------------------------------------------------
(* C26 *)

\* C26: a cycle whose decision block has a confidence percentage above 100
\* parses to no decision, and the confidence of every parsed decision lies
\* within 0 and 1 (0 and 100 in hundredths).
C26_ConfidenceInRange ==
    /\ (IsCycle /\ op.prep = "ok" /\ ~op.llm.raised /\ op.llm.val # None
           /\ Val(op.llm.val).dec # None /\ TextDec.pct > 100)
          => op.parsed.val = None
    /\ (IsCycle /\ op.parsed.val # None)
          => Parsed.confidence >= 0 /\ Parsed.confidence <= 100

-----------------------------------------------------------------------------
(* C28 *)

\* C28: a place_bracket_order call that returns with its entry order
\* acknowledged stores the bracket under a position key the registry did not
\* have: the registry gains exactly that key and every earlier entry stays
\* as it was, also for a second placement of the symbol in the same second.
C28_FreshKeyPerPlacement ==
    [][(IsPlace' /\ MainAcked(calls') /\ ~exc')
         => /\ op'.key \notin DOMAIN active_brackets
            /\ DOMAIN active_brackets' = DOMAIN active_brackets \cup {op'.key}
            /\ \A k \in DOMAIN active_brackets :
                  active_brackets'[k] = active_brackets[k]]_vars

-----------------------------------------------------------------------------
(* C29 *)

\* C29: every registry entry and every bracket place_bracket_order returns
\* has a main order id, whichever shape the acknowledgement of the entry
\* order had.
C29_MainIdNeverNull ==
    /\ \A k \in DOMAIN active_brackets : active_brackets[k].main # None
    /\ (IsPlace /\ ret # None) => Val(ret).main # None

-----------------------------------------------------------------------------
(* C30 *)

\* C30: an entry order of a cycle is a buy order only if the action of the
\* parsed decision is BUY and a sell order only if it is SELL; a decision
\* with any other action token leads to no place_order call.
C30_OrdersOnlyForBuyAndSell ==
    (IsCycle /\ op.parsed.val # None)
      => /\ \A i \in PlaceIdx(calls) :
               ~calls[i].reduce_only
                 => Parsed.action = (IF calls[i].is_buy THEN "BUY" ELSE "SELL")
         /\ Parsed.action \notin {"BUY", "SELL"} => PlaceIdx(calls) = {}

-----------------------------------------------------------------------------
(* C27 *)

IsRun == op.name = "run"

\* the pass of the loop met a failure: data gathering, the model call or an
\* adapter call raised, the model returned nothing, or nothing was parsed
FailedCycle ==
    /\ IsRun
    /\ \/ op.prep = "raise"
       \/ op.llm.raised \/ op.llm.val = None
       \/ op.parsed.exc \/ op.parsed.val = None
       \/ \E i \in DOMAIN calls : calls[i].resp.raised

\* C27: no pass of the run loop lets an exception escape run_cycle, whatever
\* failed in the cycle, and each pass advances the invocation counter by
\* exactly one; and from every count the loop has reached, the next cycle
\* is eventually run.
C27_RunSurvivesFailedCycles ==
    /\ [][IsRun' => /\ ~exc'
                    /\ invocation_count' = invocation_count + 1]_vars
    /\ \A n \in 0 .. (MaxRunCycles - 1) :
          (invocation_count = n) ~> (invocation_count = n + 1)

\* the second pass of the loop, in which the take-profit order raised after
\* the entry order was acknowledged, and nothing escaped
C27_Witness ==
    /\ FailedCycle
    /\ invocation_count = 2
    /\ MainAcked(calls)
    /\ \E i \in PlaceIdx(calls) : calls[i].resp.raised
    /\ ~exc

\* a second pass of the loop in which every order was acknowledged and the
\* bracket was stored
C27_WitnessNormalCycle ==
    /\ IsRun /\ ~FailedCycle
    /\ invocation_count = 2
    /\ Len(PlaceCallsOf(calls)) = 3
    /\ \A i \in PlaceIdx(calls) : Acked(calls[i])
    /\ DOMAIN active_brackets # {}

====
